---- MODULE Spec2Model ----
(***************************************************************************)
(* Model of pyaudio_trx/trx.py: the audio sender (AudioSender, the --tx    *)
(* branch of __main__) and the audio receiver (AudioReceiver, the --rx     *)
(* branch), each a single-threaded process owning a PyAudio instance, an   *)
(* audio stream and a TCP socket, plus the TCP connection between them.    *)
(*                                                                         *)
(* The source names no interpreter.  Two of its expressions mean different *)
(* things under Python 2 and Python 3 (`/` on integers, line 161, and the  *)
(* comparison of a recv() result with '', line 117), and a blocking call   *)
(* interrupted by a handled signal raises EINTR only under Python 2        *)
(* (PEP 475).  pyver is therefore chosen at start and never changes.       *)
(*                                                                         *)
(* A captured byte is identified by its position in the capture stream     *)
(* (1, 2, 3, ...), so loss, duplication and reordering are all visible.    *)
(***************************************************************************)
EXTENDS Integers, Sequences, FiniteSets, TLC

VARIABLES
    pyver,        \* 2 or 3: the interpreter's major version
    rate,         \* self.rate
    chunk_size,   \* self.chunk_size
    channels,     \* self.channels
    duration,     \* self.duration (sender; 0 = unlimited)
    pc,           \* [Procs -> control point]
    exc,          \* [Procs -> the uncaught exception that ended the process, or "none"]
    stream,       \* [Procs -> state of the object self.stream refers to]
    audio,        \* [Procs -> state of self.audio]
    sock,         \* [Procs -> state of self.sock]
    sigs,         \* [Procs -> signals delivered so far]
    shut,         \* [Procs -> record of the shutdown() invocations]
    intr,         \* a signal arrived while the receiver was inside a blocking socket call
    i,            \* sender: send_frame invocations begun
    txdata,       \* sender: the chunk read from the device, not yet sent
    captured,     \* sender: bytes read from the capture device so far
    sentlog,      \* sender: the chunks sendall has written, in order
    latency,      \* sender: time units spent blocked inside sendall
    listening,    \* the receiver's socket is bound and listening
    backlog,      \* established connections not yet accepted (clients, in order)
    cli,          \* the other client: "idle", "connected" or "closed"
    wire,         \* bytes the sender wrote that the receiver has not read yet
    conn,         \* receiver: local conn/addr of listen_and_process ("none" = unbound)
    data,         \* receiver: local data of receive_audio
    played,       \* receiver: the buffers written to the playback stream, in order
    lastAccept,   \* receiver: outcome of the latest accept() call
    timeouts,     \* receiver: consecutive accept() timeouts, saturating
    accepted,     \* receiver: clients accept() has returned, in order
    handlers,     \* receiver: receive_audio invocations begun
    returns,      \* receiver: receive_audio invocations returned
    acceptErrs,   \* receiver: socket errors other than a timeout that accept() has raised
    echo_pc,      \* echo server: control point of the request being handled
    echo_sent,    \* echo server: the bytes the client has sent on the connection
    echo_recvd,   \* echo server: what self.request.recv(1024) returned
    echo_data,    \* echo server: self.data
    echo_reply,   \* echo server: the bytes written back to the client
    echo_log,     \* echo server: the handler's outputs (prints and the write), in order
    handles,      \* [Procs -> the open PyAudio streams and the open sockets of the process]
    wf,           \* receiver: self.wf, "none" or "open"
    wffile        \* receiver: the buffers writeframes has appended to the file, in order

cfgVars  == <<pyver, rate, chunk_size, channels, duration>>
procVars == <<pc, exc, stream, audio, sock, sigs, shut, intr>>
txVars   == <<i, txdata, captured, sentlog, latency>>
netVars  == <<listening, backlog, cli, wire>>
rxVars   == <<conn, data, played, lastAccept, timeouts, accepted, handlers, returns, acceptErrs>>
echoVars == <<echo_pc, echo_sent, echo_recvd, echo_data, echo_reply, echo_log>>
fileVars == <<wf, wffile>>
vars     == <<cfgVars, procVars, txVars, netVars, rxVars, echoVars, handles, fileVars>>

(***************************************************************************)
(* Bounds of the model.                                                    *)
(***************************************************************************)
MaxRate == 3
MaxChunkSize == 2
MaxChannels == 2
MaxDuration == 2
MaxBytes == 4
MaxSignals == 2
MaxLatency == 1
MaxTimeouts == 2
MaxEmptyWrites == 1
MaxAcceptErrors == 1
MaxEchoLen == 3

(***************************************************************************)
(* Program constants: the sample width in bytes of 16-bit PCM, the size    *)
(* given to recv, and the backlog given to listen.                         *)
(***************************************************************************)
Width == 2
RecvSize == 1024
Backlog == 1

Procs == {"tx", "rx"}

Min(a, b) == IF a < b THEN a ELSE b

\* int(x) of the rational n/d: truncation toward zero.
IntTrunc(n, d) == IF n >= 0 THEN n \div d ELSE -((-n) \div d)

ChunkBytes_one_channel == chunk_size * Width

\* Bytes of one chunk: stream.read(chunk_size) of a paInt16 stream with `channels` channels.
ChunkBytes == chunk_size * channels * Width

\* The bytes lo+1 .. lo+n of the capture stream.
Captured(lo, n) == [k \in 1..n |-> lo + k]

EmptyWrites == Cardinality({k \in DOMAIN played : played[k] = <<>>})

----------------------------------------------------------------------------
(***************************************************************************)
(* BaseAudio.shutdown, lines 67-75.  The three `if` tests are on object    *)
(* references, which shutdown never resets: a Stream, a PyAudio or a       *)
(* socket object is truthy whatever its state, so only self.stream, None   *)
(* until open_audio_stream, can skip its calls.  PyAudio raises IOError    *)
(* for stop_stream() or close() on a closed stream; terminate() and        *)
(* socket.close() on an already released object return silently.           *)
(***************************************************************************)
shutdown_calls_sock_first ==
    <<"sock.close", "stream.stop_stream", "stream.close", "audio.terminate">>

\* The library calls of shutdown in program order.
shutdown_calls ==
    <<"stream.stop_stream", "stream.close", "audio.terminate", "sock.close">>

\* One call applied to s = [stream, audio, sock, calls, rerel, raised].
ReleaseCall(c, s) ==
    IF s.raised THEN s
    ELSE IF c = "stream.stop_stream" THEN
        IF s.stream = "none" THEN s
        ELSE IF s.stream = "closed"
             THEN [s EXCEPT !.calls = Append(@, c), !.rerel = @ \cup {"stream"},
                            !.raised = TRUE]
             ELSE [s EXCEPT !.calls = Append(@, c), !.stream = "stopped"]
    ELSE IF c = "stream.close" THEN
        IF s.stream = "none" THEN s
        ELSE IF s.stream = "closed"
             THEN [s EXCEPT !.calls = Append(@, c), !.rerel = @ \cup {"stream"},
                            !.raised = TRUE]
             ELSE [s EXCEPT !.calls = Append(@, c), !.stream = "closed"]
    ELSE IF c = "audio.terminate" THEN
        IF s.audio = "terminated"
        THEN [s EXCEPT !.calls = Append(@, c), !.rerel = @ \cup {"audio"}]
        ELSE [s EXCEPT !.calls = Append(@, c), !.audio = "terminated"]
    ELSE
        IF s.sock = "closed"
        THEN [s EXCEPT !.calls = Append(@, c), !.rerel = @ \cup {"sock"}]
        ELSE [s EXCEPT !.calls = Append(@, c), !.sock = "closed"]

RECURSIVE RunCalls(_, _)
RunCalls(cs, s) == IF cs = <<>> THEN s ELSE RunCalls(Tail(cs), ReleaseCall(Head(cs), s))

\* The result of self.shutdown() in process p.
shutdown(p) ==
    RunCalls(shutdown_calls,
             [stream |-> stream[p], audio |-> audio[p], sock |-> sock[p],
              calls |-> <<>>, rerel |-> {}, raised |-> FALSE])

stream_close_skipped(n) == n

\* Stream.close(), line 127: the stream leaves the open streams of its PyAudio.
stream_close(n) == n - 1

\* The open handles h of a process after the shutdown() with result r, its socket
\* having been in state s before: stop_stream() on a closed stream raises before
\* anything is released; otherwise the stream is closed, terminate() closes every
\* stream of the PyAudio instance that is still open, and the socket is closed.
AfterShutdown(h, s, r) ==
    IF r.raised THEN h
    ELSE [streams |-> 0, socks |-> IF s = "open" THEN h.socks - 1 ELSE h.socks]

NoShutdown == [n |-> 0, at |-> "none", pre |-> <<>>, calls |-> <<>>, rerel |-> {}, raised |-> FALSE]

\* An uncaught exception e, or the end of the script (e = "none"), ends process p.
Exit(p, e) == /\ pc' = [pc EXCEPT ![p] = "exited"]
              /\ exc' = [exc EXCEPT ![p] = e]

Blocking == {"accept", "recv_first", "recv_next"}

(***************************************************************************)
(* BaseAudio.handle_signal, lines 77-79, installed for SIGINT and SIGTERM  *)
(* (lines 268-269, 285-286).  CPython runs the handler in the main thread  *)
(* between two bytecodes, so shutdown() runs to its end before the         *)
(* interrupted code goes on; an exception it raises surfaces there and no  *)
(* `except` of __main__ catches it.  With these handlers installed SIGINT  *)
(* no longer raises KeyboardInterrupt, so the except clauses of lines      *)
(* 272-274 and 288-290 do not run.                                         *)
(***************************************************************************)
handle_signal(p) ==
    /\ pc[p] # "exited"
    /\ sigs["tx"] + sigs["rx"] < MaxSignals
    /\ LET r == shutdown(p) IN
        /\ sigs' = [sigs EXCEPT ![p] = @ + 1]
        /\ stream' = [stream EXCEPT ![p] = r.stream]
        /\ audio' = [audio EXCEPT ![p] = r.audio]
        /\ sock' = [sock EXCEPT ![p] = r.sock]
        /\ shut' = [shut EXCEPT ![p] =
                      [n |-> @.n + 1, at |-> pc[p], pre |-> <<stream[p], audio[p], sock[p]>>,
                       calls |-> r.calls, rerel |-> @.rerel \cup r.rerel,
                       raised |-> r.raised]]
        /\ handles' = [handles EXCEPT ![p] = AfterShutdown(@, sock[p], r)]
        /\ IF r.raised
           THEN Exit(p, "IOError") /\ UNCHANGED intr
           ELSE /\ UNCHANGED <<pc, exc>>
                /\ intr' = IF p = "rx" /\ pc[p] \in Blocking THEN TRUE ELSE intr
    /\ UNCHANGED <<echoVars, fileVars, cfgVars, txVars, netVars, rxVars>>

----------------------------------------------------------------------------
(***************************************************************************)
(* The network.  A connect() succeeds while the receiver's socket is       *)
(* listening and its accept queue, of the length given to listen(), has    *)
(* room.  A peer's socket is closed by close() or by the end of its        *)
(* process.                                                                *)
(***************************************************************************)
IsListening == listening /\ sock["rx"] = "open" /\ pc["rx"] # "exited"

CanConnect == IsListening /\ Len(backlog) < Backlog

PeerClosed(c) == IF c = "tx" THEN sock["tx"] = "closed" \/ pc["tx"] = "exited"
                 ELSE cli = "closed"

\* The other client (any TCP peer that is not this sender) connects.
ClientConnect ==
    /\ cli = "idle" /\ CanConnect
    /\ cli' = "connected"
    /\ backlog' = Append(backlog, "c1")
    /\ UNCHANGED <<echoVars, fileVars, handles, cfgVars, procVars, txVars, listening, wire, rxVars>>

\* The other client closes its socket.
ClientClose ==
    /\ cli = "connected"
    /\ cli' = "closed"
    /\ UNCHANGED <<echoVars, fileVars, handles, cfgVars, procVars, txVars, listening, backlog, wire, rxVars>>

----------------------------------------------------------------------------
(***************************************************************************)
(* The sender: __main__ lines 257-274 after the constructor and the two    *)
(* signal.signal calls, then AudioSender.start_sending, lines 164-174.     *)
(***************************************************************************)

start_sending_steps_stream_first == <<"open_stream", "connect", "loop">>

\* The statements of start_sending in program order: self.socket_connect() (line 166),
\* self.open_audio_stream() (line 168), then the send loop (lines 170-173).
start_sending_steps == <<"connect", "open_stream", "loop">>

\* The control point that follows step s of start_sending.
NextStep(s) ==
    start_sending_steps[(CHOOSE k \in DOMAIN start_sending_steps : start_sending_steps[k] = s) + 1]

\* AudioSender.socket_connect, lines 141-142, called at line 166.
socket_connect ==
    /\ pc["tx"] = "connect"
    /\ \/ /\ sock["tx"] = "open" /\ CanConnect
          /\ backlog' = Append(backlog, "tx")
          /\ pc' = [pc EXCEPT !["tx"] = NextStep("connect")]
          /\ UNCHANGED exc
       \/ /\ Exit("tx", "socket.error")     \* refused, timed out, or socket closed
          /\ UNCHANGED backlog
    /\ UNCHANGED <<echoVars, fileVars, handles, cfgVars, stream, audio, sock, sigs, shut, intr, txVars,
                   listening, cli, wire, rxVars>>

\* AudioSender.open_audio_stream, lines 144-150, called at line 168.
tx_open_audio_stream ==
    /\ pc["tx"] = "open_stream"
    /\ \/ /\ audio["tx"] = "live"
          /\ stream' = [stream EXCEPT !["tx"] = "open"]
          /\ handles' = [handles EXCEPT !["tx"].streams = @ + 1]
          /\ pc' = [pc EXCEPT !["tx"] = NextStep("open_stream")]
          /\ UNCHANGED exc
       \/ /\ Exit("tx", "IOError")          \* no such device, or PyAudio terminated
          /\ UNCHANGED <<stream, handles>>
    /\ UNCHANGED <<echoVars, fileVars, cfgVars, audio, sock, sigs, shut, intr, txVars, netVars, rxVars>>

int_rate_per_chunk_times_duration_rounded(py, r, cs, d) ==
    (2 * r * d + cs) \div (2 * cs)

\* int(self.rate / self.chunk_size * duration), line 161: `/` is floor division of
\* two ints under Python 2 and true division under Python 3.
int_rate_per_chunk_times_duration(py, r, cs, d) ==
    IF py = 2 THEN (r \div cs) * d ELSE IntTrunc(r * d, cs)

range_stop_plus_one(n) == n + 1

\* range(0, n), line 161: the loop runs for i = 0 .. n-1.
range_stop(n) == n

\* The loop of start_sending goes on: `if self.duration:` (line 170) selects
\* send_frames_with_time_limit (lines 160-162) or send_frames_continuously (156-158).
LoopGoesOn ==
    \/ duration = 0
    \/ i < range_stop(int_rate_per_chunk_times_duration(pyver, rate, chunk_size, duration))

\* send_frame, line 153: data = self.stream.read(self.chunk_size).
send_frame_read ==
    /\ pc["tx"] = "loop" /\ LoopGoesOn
    /\ \/ /\ stream["tx"] = "open"
          /\ captured + ChunkBytes <= MaxBytes
          /\ i' = i + 1
          /\ txdata' = Captured(captured, ChunkBytes)
          /\ captured' = captured + ChunkBytes
          /\ pc' = [pc EXCEPT !["tx"] = "sendall"]
          /\ UNCHANGED exc
       \/ /\ i' = i + 1
          /\ Exit("tx", "IOError")          \* stream closed, or input overflowed
          /\ UNCHANGED <<txdata, captured>>
    /\ UNCHANGED <<echoVars, fileVars, handles, cfgVars, stream, audio, sock, sigs, shut, intr, sentlog, latency,
                   netVars, rxVars>>

\* The socket write takes time: sendall (line 154) is still blocked.
send_frame_blocked ==
    /\ pc["tx"] = "sendall"
    /\ latency < MaxLatency
    /\ latency' = latency + 1
    /\ UNCHANGED <<echoVars, fileVars, handles, cfgVars, procVars, i, txdata, captured, sentlog, netVars, rxVars>>

sendall_raises_next_frame == pc' = [pc EXCEPT !["tx"] = "loop"] /\ UNCHANGED exc

\* sendall (line 154) raises: no try statement of send_frame, of the send loops
\* (lines 156-162) or of start_sending encloses the call and __main__ catches only
\* KeyboardInterrupt, so the exception ends the process.
sendall_raises == Exit("tx", "socket.error")

sendall_writes_twice(d) == <<d, d>>

\* The buffers that the one call self.sock.sendall(data) of send_frame writes.
sendall_writes(d) == <<d>>

RECURSIVE Concat(_)
Concat(bufs) == IF bufs = <<>> THEN <<>> ELSE Head(bufs) \o Concat(Tail(bufs))

\* send_frame, line 154: self.sock.sendall(data).
send_frame_sendall ==
    /\ pc["tx"] = "sendall"
    /\ \/ /\ sock["tx"] = "open"
          /\ wire' = wire \o Concat(sendall_writes(txdata))
          /\ sentlog' = sentlog \o sendall_writes(txdata)
          /\ txdata' = <<>>
          /\ pc' = [pc EXCEPT !["tx"] = "loop"]
          /\ UNCHANGED exc
       \/ /\ sendall_raises                 \* reset, timed out, or socket closed
          /\ UNCHANGED <<wire, sentlog, txdata>>
    /\ UNCHANGED <<echoVars, fileVars, handles, cfgVars, stream, audio, sock, sigs, shut, intr, i, captured, latency,
                   listening, backlog, cli, rxVars>>

\* The range is exhausted: send_frames_with_time_limit and start_sending return (line 174).
start_sending_returns ==
    /\ pc["tx"] = "loop" /\ ~LoopGoesOn
    /\ pc' = [pc EXCEPT !["tx"] = "started"]
    /\ UNCHANGED <<echoVars, fileVars, handles, cfgVars, exc, stream, audio, sock, sigs, shut, intr, txVars,
                   netVars, rxVars>>

\* Line 271: tx.stop_senddng() names no method of AudioSender, so the call raises
\* AttributeError, which `except KeyboardInterrupt` (line 272) does not catch:
\* stop_sending (lines 176-178) and its shutdown() never run on this path.
main_tx_stop ==
    /\ pc["tx"] = "started"
    /\ Exit("tx", "AttributeError")
    /\ UNCHANGED <<echoVars, fileVars, handles, cfgVars, stream, audio, sock, sigs, shut, intr, txVars, netVars, rxVars>>

----------------------------------------------------------------------------
(***************************************************************************)
(* The receiver: __main__ lines 275-290 after the constructor and the two  *)
(* signal.signal calls, then AudioReceiver.listen_and_process, lines       *)
(* 94-109, and AudioReceiver.receive_audio, lines 111-127.                 *)
(***************************************************************************)

\* Lines 96-97: self.sock.bind((self.host, self.port)); self.sock.listen(1).
listen_and_process_bind ==
    /\ pc["rx"] = "bind"
    /\ \/ /\ sock["rx"] = "open"
          /\ listening' = TRUE
          /\ pc' = [pc EXCEPT !["rx"] = "accept"]
          /\ UNCHANGED exc
       \/ /\ Exit("rx", "socket.error")     \* address in use, or socket closed
          /\ UNCHANGED listening
    /\ UNCHANGED <<echoVars, fileVars, handles, cfgVars, stream, audio, sock, sigs, shut, intr, txVars,
                   backlog, cli, wire, rxVars>>

accept_except_timeout_breaks(outcome) ==
    IF outcome \in {"timeout", "EINTR"} THEN "break" ELSE "fall through"

\* The except clauses of lines 102-107, by what accept() raised: socket.timeout
\* continues the loop; socket.error breaks only for errno EINTR, and for any other
\* errno the `if` is false and control leaves the try statement for line 108.
accept_except(outcome) ==
    IF outcome = "timeout" THEN "continue"
    ELSE IF outcome = "EINTR" THEN "break"
    ELSE "fall through"

\* What the accept() of line 101 can do in the current state.
AcceptOutcomes ==
    IF sock["rx"] = "closed" THEN {"EBADF"} \cup (IF intr /\ pyver = 2 THEN {"EINTR"} ELSE {})
    ELSE (IF backlog # <<>> THEN {"connection"} ELSE {"timeout"})
         \cup (IF acceptErrs < MaxAcceptErrors THEN {"ECONNABORTED"} ELSE {})
         \cup (IF intr /\ pyver = 2 THEN {"EINTR"} ELSE {})

\* The open sockets of the receiver after `conn, addr = self.sock.accept()` (line 101),
\* n being their number before and c the old value of conn: accept returns a new
\* socket, and the socket of an earlier connection, which no statement closes, loses
\* its last reference when conn is bound anew and is closed by CPython then.
AfterAccept(n, c) == IF c = "none" THEN n + 1 ELSE n

\* One iteration of the `while True` of listen_and_process up to the call of
\* receive_audio: lines 100-108.
listen_and_process_accept ==
    /\ pc["rx"] = "accept"
    /\ \E outcome \in AcceptOutcomes :
        /\ lastAccept' = outcome
        /\ intr' = FALSE
        /\ IF outcome = "connection"
           THEN \* conn, addr = self.sock.accept(); line 108; line 109 calls receive_audio
                /\ conn' = Head(backlog)
                /\ backlog' = Tail(backlog)
                /\ accepted' = Append(accepted, Head(backlog))
                /\ handles' = [handles EXCEPT !["rx"].socks = AfterAccept(@, conn)]
                /\ pc' = [pc EXCEPT !["rx"] = "receive_audio"]
                /\ timeouts' = 0
                /\ UNCHANGED <<exc, acceptErrs>>
           ELSE /\ UNCHANGED <<conn, backlog, accepted, handles>>
                /\ timeouts' = IF outcome = "timeout"
                               THEN Min(timeouts + 1, MaxTimeouts) ELSE 0
                /\ acceptErrs' = IF outcome = "timeout" THEN acceptErrs ELSE acceptErrs + 1
                /\ LET next == accept_except(outcome) IN
                   IF next = "continue" THEN UNCHANGED <<pc, exc>>
                   ELSE IF next = "break"
                   THEN \* listen_and_process returns and the script ends
                        Exit("rx", "none")
                   ELSE IF conn = "none"
                   THEN \* line 108 reads addr, never assigned
                        Exit("rx", "UnboundLocalError")
                   ELSE \* lines 108-109 with the conn and addr of an earlier iteration
                        /\ pc' = [pc EXCEPT !["rx"] = "receive_audio"]
                        /\ UNCHANGED exc
    /\ UNCHANGED <<echoVars, fileVars, cfgVars, stream, audio, sock, sigs, shut, txVars,
                   listening, cli, wire, data, played, handlers, returns>>

\* receive_audio, lines 113-115: frame_count = 1; self.open_audio_stream() (86-92).
rx_open_audio_stream ==
    /\ pc["rx"] = "receive_audio"
    /\ handlers' = handlers + 1
    /\ \/ /\ audio["rx"] = "live"
          /\ stream' = [stream EXCEPT !["rx"] = "open"]
          /\ handles' = [handles EXCEPT !["rx"].streams = @ + 1]
          /\ pc' = [pc EXCEPT !["rx"] = "recv_first"]
          /\ UNCHANGED exc
       \/ /\ Exit("rx", "IOError")          \* no such device, or PyAudio terminated
          /\ UNCHANGED <<stream, handles>>
    /\ UNCHANGED <<echoVars, fileVars, cfgVars, audio, sock, sigs, shut, intr, txVars, netVars,
                   conn, data, played, lastAccept, timeouts, accepted, returns, acceptErrs>>

\* What conn.recv(1024) returns: up to 1024 of the bytes that have arrived, b'' once
\* the peer has closed and nothing is left; it blocks while neither is the case.
RecvResults ==
    IF conn = "tx" /\ wire # <<>>
    THEN {SubSeq(wire, 1, k) : k \in 1..Min(RecvSize, Len(wire))}
    ELSE IF PeerClosed(conn) THEN {<<>>} ELSE {}

\* data = conn.recv(1024): line 116 before the loop, line 119 inside it, followed by
\* lines 120-124.  With self.wf set, line 124 is reached, and its `wf` is no local
\* and no global name of the module (the file object is self.wf): NameError.
receive_audio_recv ==
    /\ pc["rx"] \in {"recv_first", "recv_next"}
    /\ intr' = FALSE
    /\ \/ \E d \in RecvResults :
            /\ data' = d
            /\ wire' = IF conn = "tx" THEN SubSeq(wire, Len(d) + 1, Len(wire)) ELSE wire
            /\ IF pc["rx"] = "recv_next" /\ wf = "open"
               THEN Exit("rx", "NameError")
               ELSE pc' = [pc EXCEPT !["rx"] = "while"] /\ UNCHANGED exc
       \/ /\ Exit("rx", "socket.error")     \* connection reset
          /\ UNCHANGED <<data, wire>>
       \/ /\ intr /\ pyver = 2             \* EINTR from the interrupted call
          /\ Exit("rx", "socket.error")
          /\ UNCHANGED <<data, wire>>
    /\ UNCHANGED <<echoVars, fileVars, handles, cfgVars, stream, audio, sock, sigs, shut, txVars, listening, backlog, cli,
                   conn, played, lastAccept, timeouts, accepted, handlers, returns, acceptErrs>>

loop_test_once(py, d) == FALSE

\* data != '' (line 117).  recv returns a str under Python 2 and a bytes under
\* Python 3, and no bytes object equals the str '': b'' != '' is True.
loop_test(py, d) == IF py = 2 THEN d # <<>> ELSE TRUE

\* Lines 117-118: the loop test and, when it holds, self.stream.write(data).
receive_audio_write ==
    /\ pc["rx"] = "while" /\ loop_test(pyver, data)
    /\ \/ /\ stream["rx"] = "open"
          /\ data = <<>> => EmptyWrites < MaxEmptyWrites
          /\ played' = Append(played, data)
          /\ pc' = [pc EXCEPT !["rx"] = "recv_next"]
          /\ UNCHANGED exc
       \/ /\ stream["rx"] # "open"
          /\ Exit("rx", "IOError")          \* the stream is closed
          /\ UNCHANGED played
    /\ UNCHANGED <<echoVars, fileVars, handles, cfgVars, stream, audio, sock, sigs, shut, intr, txVars, netVars,
                   conn, data, lastAccept, timeouts, accepted, handlers, returns, acceptErrs>>

\* Lines 125-127 once the loop test fails: self.stream.stop_stream();
\* self.stream.close(); receive_audio returns to the loop of listen_and_process.
receive_audio_stop ==
    /\ pc["rx"] = "while" /\ ~loop_test(pyver, data)
    /\ \/ /\ stream["rx"] = "open"
          /\ stream' = [stream EXCEPT !["rx"] = "closed"]
          /\ handles' = [handles EXCEPT !["rx"].streams = stream_close(@)]
          /\ returns' = returns + 1
          /\ pc' = [pc EXCEPT !["rx"] = "accept"]
          /\ UNCHANGED exc
       \/ /\ stream["rx"] # "open"
          /\ Exit("rx", "IOError")          \* the stream is closed
          /\ UNCHANGED <<stream, returns, handles>>
    /\ UNCHANGED <<echoVars, fileVars, cfgVars, audio, sock, sigs, shut, intr, txVars, netVars,
                   conn, data, played, lastAccept, timeouts, accepted, handlers, acceptErrs>>

----------------------------------------------------------------------------
(***************************************************************************)
(* The echo server, echo-server/bin/echo-server.py: a socketserver         *)
(* TCPServer (lines 10-13) that handles one connection at a time with      *)
(* EchoTCPHandler.handle, lines 4-8.  A byte is its integer value.         *)
(***************************************************************************)

\* The size passed to recv, line 5.
EchoRecvSize == 1024

\* The bytes bytes.strip() removes from both ends: ASCII whitespace.
Whitespace == {9, 10, 11, 12, 13, 32}

\* The bytes a client may send: newline, space and the letter a.
EchoAlphabet == {10, 32, 97}

EchoInputs == UNION {[1..n -> EchoAlphabet] : n \in 0..MaxEchoLen}

RECURSIVE LStrip(_)
LStrip(b) == IF b # <<>> /\ Head(b) \in Whitespace THEN LStrip(Tail(b)) ELSE b

RECURSIVE RStrip(_)
RStrip(b) == IF b # <<>> /\ b[Len(b)] \in Whitespace
             THEN RStrip(SubSeq(b, 1, Len(b) - 1)) ELSE b

\* bytes.strip(), line 5.
strip(b) == RStrip(LStrip(b))

EchoIdle ==
    /\ echo_pc = "idle" /\ echo_sent = <<>> /\ echo_recvd = <<>>
    /\ echo_data = <<>> /\ echo_reply = <<>> /\ echo_log = <<>>

\* server.serve_forever(), line 13: the next client connects and sends its bytes; the
\* server accepts and constructs the handler, whose handle() starts.
echo_serve ==
    /\ echo_pc \in {"idle", "done"}
    /\ \E b \in EchoInputs : echo_sent' = b
    /\ echo_pc' = "recv"
    /\ echo_recvd' = <<>> /\ echo_data' = <<>> /\ echo_reply' = <<>> /\ echo_log' = <<>>
    /\ UNCHANGED <<fileVars, handles, cfgVars, procVars, txVars, netVars, rxVars>>

\* Line 5: self.data = self.request.recv(1024).strip().  recv returns up to 1024 of
\* the bytes that have arrived, b'' if the client closed without sending.
echo_handle_recv ==
    /\ echo_pc = "recv"
    /\ \E k \in (IF echo_sent = <<>> THEN {0} ELSE 1..Min(EchoRecvSize, Len(echo_sent))) :
          /\ echo_recvd' = SubSeq(echo_sent, 1, k)
          /\ echo_data' = strip(SubSeq(echo_sent, 1, k))
    /\ echo_pc' = "print"
    /\ UNCHANGED <<echo_sent, echo_reply, echo_log, fileVars, handles, cfgVars, procVars, txVars, netVars, rxVars>>

\* Lines 6-7: print the client's address, then the data.
echo_handle_print ==
    /\ echo_pc = "print"
    /\ echo_log' = echo_log \o <<"print address", "print data">>
    /\ echo_pc' = "sendall"
    /\ UNCHANGED <<echo_sent, echo_recvd, echo_data, echo_reply, fileVars, handles,
                   cfgVars, procVars, txVars,
                   netVars, rxVars>>

\* Line 8: self.request.sendall(self.data); handle returns and the server closes
\* the connection.
echo_handle_sendall ==
    /\ echo_pc = "sendall"
    /\ echo_reply' = echo_data
    /\ echo_log' = Append(echo_log, "sendall")
    /\ echo_pc' = "done"
    /\ UNCHANGED <<echo_sent, echo_recvd, echo_data, fileVars, handles, cfgVars, procVars, txVars,
                   netVars, rxVars>>

----------------------------------------------------------------------------
(***************************************************************************)
(* Specifications.  Spec is the whole system: one sender, one receiver and *)
(* one other client, with the smallest audio configuration.  SpecTx is the *)
(* sender alone, over every configuration within the bounds, with a peer   *)
(* that is already listening.  SpecEcho is the echo server, a program of   *)
(* its own, over every input within the bounds.                            *)
(***************************************************************************)
InitState ==
    /\ exc = [p \in Procs |-> "none"]
    /\ stream = [p \in Procs |-> "none"]
    /\ audio = [p \in Procs |-> "live"]
    /\ sock = [p \in Procs |-> "open"]
    /\ sigs = [p \in Procs |-> 0]
    /\ shut = [p \in Procs |-> NoShutdown]
    /\ intr = FALSE
    /\ i = 0 /\ txdata = <<>> /\ captured = 0 /\ sentlog = <<>> /\ latency = 0
    /\ backlog = <<>> /\ cli = "idle" /\ wire = <<>>
    /\ conn = "none" /\ data = <<>> /\ played = <<>>
    /\ lastAccept = "none" /\ timeouts = 0 /\ accepted = <<>>
    /\ handlers = 0 /\ returns = 0 /\ acceptErrs = 0
    /\ handles = [p \in Procs |-> [streams |-> 0, socks |-> 1]]
    /\ wffile = <<>>
    /\ EchoIdle

Init ==
    /\ pyver \in {2, 3}
    /\ rate = 1 /\ chunk_size = 1 /\ channels = 1
    /\ duration \in 0..MaxDuration
    /\ pc = [p \in Procs |-> IF p = "tx" THEN start_sending_steps[1] ELSE "bind"]
    /\ listening = FALSE
    /\ wf \in {"none", "open"}
    /\ InitState

InitTx ==
    /\ pyver \in {2, 3}
    /\ rate \in 1..MaxRate
    /\ chunk_size \in 1..MaxChunkSize
    /\ channels \in 1..MaxChannels
    /\ duration \in 0..MaxDuration
    /\ pc = [p \in Procs |-> IF p = "tx" THEN start_sending_steps[1] ELSE "accept"]
    /\ listening = TRUE
    /\ wf = "none"
    /\ InitState

NextTx ==
    \/ socket_connect
    \/ tx_open_audio_stream
    \/ send_frame_read
    \/ send_frame_blocked
    \/ send_frame_sendall
    \/ start_sending_returns
    \/ main_tx_stop
    \/ handle_signal("tx")

Next ==
    \/ NextTx
    \/ handle_signal("rx")
    \/ ClientConnect
    \/ ClientClose
    \/ listen_and_process_bind
    \/ listen_and_process_accept
    \/ rx_open_audio_stream
    \/ receive_audio_recv
    \/ receive_audio_write
    \/ receive_audio_stop

Spec == Init /\ [][Next]_vars

SpecTx == InitTx /\ [][NextTx]_vars

NextEcho ==
    \/ echo_serve
    \/ echo_handle_recv
    \/ echo_handle_print
    \/ echo_handle_sendall

InitEcho ==
    /\ pyver = 3
    /\ rate = 1 /\ chunk_size = 1 /\ channels = 1 /\ duration = 0
    /\ pc = [p \in Procs |-> "exited"]
    /\ listening = FALSE
    /\ wf = "none"
    /\ InitState

SpecEcho == InitEcho /\ [][NextEcho]_vars

----------------------------------------------------------------------------
(***************************************************************************)
(* Properties.                                                             *)
(***************************************************************************)
Released(p) == stream[p] \notin {"open", "stopped"} /\ sock[p] # "open"

\* Position of the first occurrence of call c in the sequence cs, 0 if there is none.
Pos(c, cs) == IF \E k \in DOMAIN cs : cs[k] = c
              THEN CHOOSE k \in DOMAIN cs : cs[k] = c /\ \A j \in 1..(k-1) : cs[j] # c
              ELSE 0

\* C1: shutdown is idempotent: once a session's shutdown() has been invoked twice, no
\* invocation has raised an error and none has stopped, closed or terminated a stream,
\* audio or socket handle that was already released.
C1_ShutdownIdempotent ==
    \A p \in Procs : shut[p].n >= 2 => (~shut[p].raised /\ shut[p].rerel = {})

\* C2: a process that has exited by completing its send loop, by returning from its
\* listen loop or after a signal (that is, not on an error of a socket, of the audio
\* device or of the accept loop without a signal) has run shutdown before, and
\* neither its stream nor its socket is open.
C2_ShutdownBeforeExit ==
    \A p \in Procs :
        (/\ pc[p] = "exited"
         /\ \/ exc[p] \notin {"socket.error", "IOError", "UnboundLocalError"}
            \/ sigs[p] > 0)
            => (shut[p].n > 0 /\ Released(p))

\* C3: when the latest shutdown of a session began with its stream and its socket open,
\* it stopped the stream, then closed it, and only then closed the socket; and no
\* shutdown closes the socket before a call that releases the stream.
C3_StreamReleasedBeforeSocket ==
    \A p \in Procs :
        LET cs == shut[p].calls IN
        /\ (shut[p].n > 0 /\ shut[p].pre[1] = "open" /\ shut[p].pre[3] = "open")
              => /\ 0 < Pos("stream.stop_stream", cs)
                 /\ Pos("stream.stop_stream", cs) < Pos("stream.close", cs)
                 /\ Pos("stream.close", cs) < Pos("sock.close", cs)
        /\ \A j, k \in DOMAIN cs :
              (cs[j] = "sock.close" /\ cs[k] \in {"stream.stop_stream", "stream.close"})
                 => k < j

C3_Witness ==
    \E p \in Procs : shut[p].n > 0 /\ shut[p].pre[1] = "open" /\ shut[p].pre[3] = "open"

\* The nearest integer to n/d, for n >= 0 and d > 0: a tie rounded up, or to even.
RoundHalfUp(n, d) == (2 * n + d) \div (2 * d)
RoundHalfEven(n, d) ==
    IF (2 * n) % (2 * d) = d /\ (n \div d) % 2 = 0 THEN n \div d ELSE RoundHalfUp(n, d)

\* C4 as stated: a sender with a duration D > 0 whose send loop has ended has sent
\* exactly round(rate/chunk_size * D) chunks (under either rounding of a tie).
C4_SendsRoundedCount ==
    (duration > 0 /\ pc["tx"] = "started")
        => Len(sentlog) \in {RoundHalfUp(rate * duration, chunk_size),
                             RoundHalfEven(rate * duration, chunk_size)}

\* C4 as amended: a sender with a duration D > 0 never sends more than
\* int(rate / chunk_size * D) chunks, the value truncated toward zero (with
\* rate / chunk_size floored first where `/` on integers is floor division), and has
\* sent exactly that many when its send loop ends, whatever time sendall took.
C4_SendsTruncatedCount ==
    duration > 0 =>
        LET limit == IF pyver = 2 THEN (rate \div chunk_size) * duration
                     ELSE (rate * duration) \div chunk_size
        IN /\ Len(sentlog) <= limit
           /\ pc["tx"] = "started" => Len(sentlog) = limit

C4_Witness ==
    /\ duration > 0 /\ pc["tx"] = "started"
    /\ Len(sentlog) >= 1 /\ latency > 0
    /\ (rate * duration) % chunk_size # 0

\* The least integer >= n/d, for d > 0.
Ceil(n, d) == -((-n) \div d)

\* C5 as stated: a sender with a duration limit whose send loop has ended has run
\* send_frame exactly ceil(rate/chunk_size * duration) times.
C5_RunsCeilSteps ==
    (duration # 0 /\ pc["tx"] = "started") => i = Ceil(rate * duration, chunk_size)

\* C5 as amended: a sender with a duration limit runs send_frame at most
\* int(rate / chunk_size * duration) times, the value truncated toward zero (with
\* rate / chunk_size floored first where `/` on integers is floor division), and
\* exactly that often when its send loop ends.
C5_RunsTruncatedSteps ==
    duration # 0 =>
        /\ pyver = 2 => i <= (rate \div chunk_size) * duration
        /\ pyver = 3 => i <= (rate * duration) \div chunk_size
        /\ (pyver = 2 /\ pc["tx"] = "started") => i = (rate \div chunk_size) * duration
        /\ (pyver = 3 /\ pc["tx"] = "started") => i = (rate * duration) \div chunk_size

C5_Witness ==
    /\ duration # 0 /\ pc["tx"] = "started" /\ i >= 1
    /\ (rate * duration) % chunk_size # 0

\* C6: at most one receive_audio invocation is in progress, and accept returns a
\* connection only when no handler is in progress and the peer of every connection
\* accepted before has closed its socket.
C6_OneConnectionAtATime ==
    /\ [](handlers - returns \in {0, 1})
    /\ [][Len(accepted') > Len(accepted)
            => /\ handlers = returns
               /\ \A k \in DOMAIN accepted : PeerClosed(accepted[k])]_vars

C6_Witness ==
    Len(accepted) = 2 /\ pc["rx"] \in {"recv_first", "recv_next", "while"}

\* C7: when the handler's read has returned a zero-length result and no signal
\* arrives, the handler's next step leaves the read/write loop, with the playback
\* stream stopped and closed and the receiver back at accept.
C7_EmptyReadEndsHandler ==
    [][(pc["rx"] = "while" /\ data = <<>> /\ pc'["rx"] # "while" /\ sigs'["rx"] = 0)
          => (pc'["rx"] = "accept" /\ stream'["rx"] = "closed")]_vars

\* C8: after an accept that timed out the receiver is at accept again (no signal
\* having arrived), and once accept has raised any other socket error the receive
\* loop has ended: no handler is started and no accept attempted.
C8_AcceptErrorEndsLoop ==
    /\ (timeouts > 0 /\ sigs["rx"] = 0) => pc["rx"] = "accept"
    /\ acceptErrs > 0 => pc["rx"] = "exited"

\* C9: while the latest accept calls have timed out and no signal has been delivered,
\* the receiver is at accept (LISTENING) with no error raised, and a receiver's
\* shutdown has run only if a signal has been delivered to it.
C9_TimeoutKeepsListening ==
    /\ (timeouts > 0 /\ sigs["rx"] = 0)
          => (pc["rx"] = "accept" /\ exc["rx"] = "none" /\ lastAccept = "timeout")
    /\ shut["rx"].n > 0 => sigs["rx"] > 0

C9_Witness ==
    timeouts >= 2 /\ sigs["rx"] = 0 /\ pc["rx"] = "accept"

\* C10: when the receiver, serving the sender's connection as its only one, has read
\* and played everything the still connected sender has written, the writes to the
\* playback stream are exactly the chunks sent: as many, each of
\* chunk_size * channels * 2 bytes, with the same bytes in the same order.
C10_PlaybackGetsTheChunks ==
    (/\ accepted = <<"tx">> /\ pc["rx"] = "recv_next" /\ wire = <<>>
     /\ ~PeerClosed("tx") /\ sigs["rx"] = 0)
        => /\ played = sentlog
           /\ \A k \in DOMAIN played : Len(played[k]) = chunk_size * channels * 2

\* C11: when the echo handler has answered, the bytes it wrote back are the bytes it
\* received, unmodified, and it printed the client's address before it wrote.
C11_EchoWritesBackInput ==
    echo_pc = "done"
        => /\ echo_reply = echo_recvd
           /\ 0 < Pos("print address", echo_log)
           /\ Pos("print address", echo_log) < Pos("sendall", echo_log)

\* C12 (as claimed): in every state of a running sender or receiver at most one audio
\* stream and at most one socket are open.
C12_OneStreamOneSocket ==
    \A p \in Procs :
        pc[p] # "exited" => handles[p].streams <= 1 /\ handles[p].socks <= 1

\* C12 (amended): in every state of a running sender or receiver at most one audio
\* stream is open; the sender has at most one socket open and the receiver at most
\* two, its listening socket and the socket of the connection accepted last.
C12_OneStreamTwoSockets ==
    /\ \A p \in Procs : pc[p] # "exited" => handles[p].streams <= 1
    /\ pc["tx"] # "exited" => handles["tx"].socks <= 1
    /\ pc["rx"] # "exited" => handles["rx"].socks <= 2

\* The receiver serves a connection after it has served another one: one stream and
\* two sockets are open.
C12_Witness ==
    /\ returns >= 1
    /\ pc["rx"] \in {"recv_first", "while", "recv_next"}
    /\ handles["rx"] = [streams |-> 1, socks |-> 2]

\* C13: a process that has exited on a session error (an error of a socket or of the
\* audio device) without having received a signal has run shutdown before, and
\* neither its stream nor its socket is open.
C13_ShutdownAfterError ==
    \A p \in Procs :
        (pc[p] = "exited" /\ exc[p] \in {"socket.error", "IOError"} /\ sigs[p] = 0)
            => (shut[p].n >= 1 /\ Released(p))

\* The control points of the sender's capture/send loop and of the receiver's accept
\* loop and connection handler.
LoopPoints(p) == IF p = "tx" THEN {"loop", "sendall"}
                 ELSE {"accept", "receive_audio", "recv_first", "while", "recv_next"}

\* C14: after one signal delivered while the process was in its loop, accept() is not
\* called on the closed listening socket, and the process, once it has exited, has
\* ended without an error.
C14_SignalEndsLoopNormally ==
    \A p \in Procs :
        (sigs[p] = 1 /\ shut[p].at \in LoopPoints(p))
            => /\ pc[p] = "exited" => exc[p] = "none"
               /\ p = "rx" => lastAccept # "EBADF"

\* The sender's process has ended on a sendall that raised: the chunk it was to
\* write is still in hand.
FailedWrite == pc["tx"] = "exited" /\ exc["tx"] = "socket.error" /\ txdata # <<>>

\* C15: a sendall that ends without having written its chunk is not repeated and
\* the send loop does not go on: the process ends on the error; and after a failed
\* write no chunk is captured from the device and none is written to the socket.
C15_FailedWriteEndsLoop ==
    [][ /\ (pc["tx"] = "sendall" /\ pc'["tx"] # "sendall" /\ sentlog' = sentlog)
            => (pc'["tx"] = "exited" /\ exc'["tx"] \in {"socket.error", "IOError"})
        /\ FailedWrite
            => (FailedWrite' /\ i' = i /\ captured' = captured /\ sentlog' = sentlog
                /\ Len(wire') <= Len(wire)) ]_vars

C15_Witness == FailedWrite /\ sentlog # <<>>

\* C16: every chunk the sender has written to the socket is chunk_size * channels * 2
\* bytes long.
C16_ChunkLength ==
    \A k \in DOMAIN sentlog : Len(sentlog[k]) = chunk_size * channels * 2

C16_Witness == sentlog # <<>> /\ channels > 1

\* The receiver's state in the terms of the spec's state machine.
RxState(at) ==
    IF at = "bind" THEN "IDLE"
    ELSE IF at = "accept" THEN "LISTENING"
    ELSE IF at = "exited" THEN "SHUTTING_DOWN"
    ELSE "SERVING"

\* C17: the receiver moves only IDLE -> LISTENING, LISTENING -> SERVING,
\* SERVING -> LISTENING and from any state to SHUTTING_DOWN, and it enters SERVING
\* only with a connection that the accept() call of this very step has returned.
C17_ServesOnlyFreshConnections ==
    [][ LET a == RxState(pc["rx"])
            b == RxState(pc'["rx"])
        IN  /\ a # b => \/ <<a, b>> \in {<<"IDLE", "LISTENING">>, <<"LISTENING", "SERVING">>,
                                        <<"SERVING", "LISTENING">>}
                        \/ b = "SHUTTING_DOWN"
            /\ (a = "LISTENING" /\ b = "SERVING")
                 => (lastAccept' = "connection" /\ Len(accepted') = Len(accepted) + 1
                     /\ conn' = accepted'[Len(accepted')]) ]_vars

\* C18: capture and send alternate strictly.  The k-th buffer written to the socket
\* is the k-th chunk captured (none twice, none skipped, none out of order); at most
\* one captured chunk is not yet written, and while there is one the sender is
\* writing it (or has ended), not reading the next.
C18_CaptureSendAlternate ==
    LET B == chunk_size * channels * 2 IN
    /\ \A k \in DOMAIN sentlog : sentlog[k] = [j \in 1..B |-> (k - 1) * B + j]
    /\ captured = B * (Len(sentlog) + (IF txdata # <<>> THEN 1 ELSE 0))
    /\ txdata # <<>> => pc["tx"] \in {"sendall", "exited"}
    /\ pc["tx"] = "sendall" => txdata # <<>>

C18_Witness == Len(sentlog) >= 2 /\ pc["tx"] = "loop"

\* C19: with an output file open, once a connection has ended other than on an error
\* of the socket or of the audio device, the file holds the chunks that were written
\* to the playback stream (none of them empty), in the same order.
C19_FileGetsPlayedChunks ==
    (/\ wf = "open" /\ handlers >= 1 /\ sigs["rx"] = 0
     /\ \A k \in DOMAIN played : played[k] # <<>>
     /\ pc["rx"] \in {"accept", "exited"}
     /\ exc["rx"] \notin {"socket.error", "IOError", "UnboundLocalError"})
        => wffile = played

\* The sender's connect() has succeeded: its connection is in the receiver's accept
\* queue or has been accepted.
TxConnected ==
    \/ \E k \in DOMAIN backlog : backlog[k] = "tx"
    \/ \E k \in DOMAIN accepted : accepted[k] = "tx"

\* C20: the sender has a capture stream only if its connect has succeeded, and has
\* read from the device only if it has a stream; without a successful connect there
\* is no stream and no chunk has been captured or sent.
C20_ConnectThenStreamThenCapture ==
    /\ stream["tx"] # "none" => TxConnected
    /\ (i > 0 \/ captured > 0) => stream["tx"] # "none"
    /\ ~TxConnected => (stream["tx"] = "none" /\ captured = 0 /\ sentlog = <<>> /\ wire = <<>>)

C20_Witness == TxConnected /\ stream["tx"] = "open" /\ captured > 0

\* The sender's connect has failed and the process has ended.
C20_WitnessRefused == ~TxConnected /\ pc["tx"] = "exited" /\ exc["tx"] = "socket.error"
====
